---- MODULE Spec2Model ----
(***************************************************************************)
(* A model of mania's download engine (src/mania/mania.py): sanitize,      *)
(* get_track_path, download_track, download_album, download_discography.   *)
(* Strings are sequences of one-token strings; the file system is a map    *)
(* from path to file content; every network call and collaborator is an    *)
(* input whose response is drawn from a small set.  Spec is the download   *)
(* engine at work on a small catalog; SanitizeSpec and PathSpec apply      *)
(* sanitize and get_track_path on their own to strings and album listings  *)
(* drawn from bounded sets.                                                *)
(***************************************************************************)
EXTENDS Integers, Sequences, FiniteSets, TLC

\* ------------------------------------------------------------------ bounds

\* Number of chunks the stream of one track is delivered in.
NumChunks == 2

\* Number of times the process may be started again after it ended.
MaxRestarts == 1

\* Length of the longest string sanitize is applied to on its own.
MaxLen == 3

\* Number of tracks in the longest album listing get_track_path is applied
\* to on its own.
MaxSiblings == 2

\* ----------------------------------------------------------------- strings

Digits == <<"0", "1", "2", "3", "4", "5", "6", "7", "8", "9">>

DigitSet == {Digits[i] : i \in 1..10}

LowerLetters == {"a", "b", "o", "r", "x", "d", "i", "s", "c", "part", "flac", "mp4"}

\* "Idot" is U+0130, LATIN CAPITAL LETTER I WITH DOT ABOVE: a letter whose
\* lower case is two characters, "i" and U+0307 COMBINING DOT ABOVE
\* ("dotabove"), the second of which is a mark and not alphanumeric.
UpperLetters == {"A", "D", "Idot"}

\* str.isalnum(), one character at a time
IsAlnum(c) == c \in LowerLetters \cup UpperLetters \cup DigitSet

\* str.lower(), one character at a time
Lower(c) ==
  CASE c = "A" -> <<"a">>
    [] c = "D" -> <<"d">>
    [] c = "Idot" -> <<"i", "dotabove">>
    [] OTHER -> <<c>>

RECURSIVE LowerStr(_)
LowerStr(s) == IF s = <<>> THEN <<>> ELSE Lower(Head(s)) \o LowerStr(Tail(s))

\* str.replace(" ", "-")
RECURSIVE Hyphenate(_)
Hyphenate(s) ==
  IF s = <<>> THEN <<>>
  ELSE <<(IF Head(s) = " " THEN "-" ELSE Head(s))>> \o Hyphenate(Tail(s))

\* str.split("-"): the words between hyphens, empty ones included
RECURSIVE SplitHyphen(_, _)
SplitHyphen(s, word) ==
  IF s = <<>> THEN <<word>>
  ELSE IF Head(s) = "-" THEN <<word>> \o SplitHyphen(Tail(s), <<>>)
  ELSE SplitHyphen(Tail(s), Append(word, Head(s)))

\* "-".join(words)
RECURSIVE JoinHyphen(_)
JoinHyphen(words) ==
  IF words = <<>> THEN <<>>
  ELSE IF Len(words) = 1 THEN Head(words)
  ELSE Head(words) \o <<"-">> \o JoinHyphen(Tail(words))

NotSlash(c) == c # "/"

KeptByNice(c) == IsAlnum(c) \/ c \in {" ", "-"}

NonEmptyWord(w) == w # <<>>

sanitize(config, string) ==
  IF ~config.nice THEN SelectSeq(string, NotSlash)
  ELSE LET alphanumeric == SelectSeq(string, KeptByNice)
           hyphenated == Hyphenate(alphanumeric)
       IN LowerStr(JoinHyphen(SelectSeq(SplitHyphen(hyphenated, <<>>), NonEmptyWord)))

\* str(n) for a natural number
RECURSIVE Str(_)
Str(n) == IF n < 10 THEN <<Digits[n + 1]>> ELSE Str(n \div 10) \o <<Digits[(n % 10) + 1]>>

\* str.zfill(width)
RECURSIVE ZFill(_, _)
ZFill(s, width) == IF Len(s) >= width THEN s ELSE ZFill(<<"0">> \o s, width)

\* posixpath.join of two components
Join2(a, b) ==
  IF b # <<>> /\ Head(b) = "/" THEN b
  ELSE IF a = <<>> \/ a[Len(a)] = "/" THEN a \o b
  ELSE a \o <<"/">> \o b

RECURSIVE PathJoin(_)
PathJoin(parts) ==
  IF Len(parts) = 1 THEN parts[1]
  ELSE Join2(PathJoin(SubSeq(parts, 1, Len(parts) - 1)), parts[Len(parts)])

\* The number of the first sibling, taken for the maximum.
SeqFirst(s) == s[1]

\* max([...]) over a non-empty list
RECURSIVE SeqMax(_)
SeqMax(s) ==
  IF Len(s) = 1 THEN s[1]
  ELSE LET m == SeqMax(Tail(s)) IN IF Head(s) > m THEN Head(s) ELSE m

\* ----------------------------------------------------------------- catalog

\* constants.TEMPORARY_EXTENSION, the in-progress marker of a temporary file
TEMPORARY_EXTENSION == <<"part">>

OutputDirectory == <<"o">>

ArtistName == <<"r">>

\* The remote catalog: one artist with two albums of the same title (an
\* album and its reissue).  Track 3 is named like track 1 followed by the
\* in-progress marker; track 4 is named like track 2.  The listing of album
\* 2 is not in track-number order.
Tracks ==
  <<[name |-> <<"a">>, disc |-> 1, num |-> 1, ext |-> <<"flac">>, album |-> 1],
    [name |-> <<"A", " ", "b">>, disc |-> 1, num |-> 2, ext |-> <<"flac">>, album |-> 1],
    [name |-> <<"a", ".", "part">>, disc |-> 1, num |-> 1, ext |-> <<"flac">>, album |-> 2],
    [name |-> <<"A", " ", "b">>, disc |-> 1, num |-> 2, ext |-> <<"flac">>, album |-> 2]>>

TrackIds == 1..Len(Tracks)

Albums ==
  <<[name |-> <<"x">>, cover |-> TRUE, tracks |-> <<1, 2>>],
    [name |-> <<"x">>, cover |-> FALSE, tracks |-> <<4, 3>>]>>

AlbumIds == 1..Len(Albums)

\* client.get_album_tracks(album), when it succeeds
AlbumTracks(a) == Albums[a].tracks

\* client.get_artist_albums(artist), when it succeeds
ArtistAlbums == <<1, 2>>

Configs == [nice : BOOLEAN, full : BOOLEAN, skipMeta : BOOLEAN]

\* ------------------------------------------------------------ path resolver

\* Whether get_track_path fetches the album listing itself.
NeedsListing(config, siblings, include_album) ==
  (include_album \/ config.full) /\ siblings = <<>>

DiscNumbers(siblings) == [i \in 1..Len(siblings) |-> Tracks[siblings[i]].disc]

TrackNumbers(siblings) == [i \in 1..Len(siblings) |-> Tracks[siblings[i]].num]

\* A disc directory for every album, also one of a single disc.
NeedsDiscPathAlways(maximum_disc_number) == maximum_disc_number >= 1

\* if maximum_disc_number > 1
NeedsDiscPath(maximum_disc_number) == maximum_disc_number > 1

\* The locals of get_track_path: the four fragments of the path, for a track
\* (its name, disc number and track number), the names of its artist and
\* album, and the disc and track numbers of the siblings.
PathFragments(config, track, artist_name, album_name, discs, numbers, include_artist, include_album) ==
  LET inAlbum == include_album \/ config.full
      maximum_disc_number == SeqMax(discs)
      maximum_track_number == SeqMax(numbers)
      disc_number == ZFill(Str(track.disc), Len(Str(maximum_disc_number)))
      track_number == ZFill(Str(track.num), Len(Str(maximum_track_number)))
  IN [artist_path |-> IF include_artist \/ config.full
                      THEN sanitize(config, artist_name) ELSE <<>>,
      album_path |-> IF inAlbum THEN sanitize(config, album_name) ELSE <<>>,
      disc_path |-> IF inAlbum /\ NeedsDiscPath(maximum_disc_number)
                    THEN sanitize(config, <<"D", "i", "s", "c", " ">> \o disc_number)
                    ELSE <<>>,
      file_path |-> IF inAlbum
                    THEN sanitize(config, track_number \o <<" ">> \o track.name)
                    ELSE sanitize(config, track.name)]

\* os.path.join(config["output-directory"], artist_path, album_path,
\* disc_path, file_path)
JoinFragments(f) ==
  PathJoin(<<OutputDirectory, f.artist_path, f.album_path, f.disc_path, f.file_path>>)

\* get_track_path for a track of the catalog, with siblings the list it ends
\* up using
get_track_path(config, t, siblings, include_artist, include_album) ==
  JoinFragments(PathFragments(config, Tracks[t], ArtistName,
                              Albums[Tracks[t].album].name,
                              DiscNumbers(siblings), TrackNumbers(siblings),
                              include_artist, include_album))

TemporaryPath(track_path, t) ==
  track_path \o <<".">> \o TEMPORARY_EXTENSION \o <<".">> \o Tracks[t].ext

FinalPath(track_path, t) == track_path \o <<".">> \o Tracks[t].ext

\* --------------------------------------------------------------- responses

\* HTTP 429 Too Many Requests
RATE_LIMITED == 429

\* HTTP 401 with subStatus 4005: the track is not available to this account
NOT_ENTITLED_STATUS == 401

NOT_ENTITLED_SUB_STATUS == 4005

\* requests.exceptions.HTTPError, by status code and the body's subStatus
\* (0 stands for a body without one)
HttpErrors ==
  {[kind |-> "http", status |-> RATE_LIMITED, sub |-> 0],
   [kind |-> "http", status |-> NOT_ENTITLED_STATUS, sub |-> NOT_ENTITLED_SUB_STATUS],
   [kind |-> "http", status |-> NOT_ENTITLED_STATUS, sub |-> 0],
   [kind |-> "http", status |-> 500, sub |-> NOT_ENTITLED_SUB_STATUS]}

\* An exception that is no HTTPError (a dropped connection)
ConnError == [kind |-> "conn"]

Failures == HttpErrors \cup {ConnError}

\* client.get_media: a locator with or without a decryptor, or a failure
MediaResponses == {[kind |-> "ok", decryptor |-> d] : d \in BOOLEAN} \cup Failures

Ok == [kind |-> "ok"]

\* client.authenticate: returns, or fails
AuthResponses == {Ok} \cup Failures

\* Any other collaborator (a listing, the stream, the cover, the decryptor):
\* it answers, or raises
Broken == [kind |-> "error"]

\* metadata.InvalidFileError
Invalid == [kind |-> "invalid"]

\* The inner handler of download_track: what follows the first get_media.
InnerHandler(resp) ==
  IF resp.kind = "ok" THEN "ok"
  ELSE IF resp.kind = "http" /\ resp.status = RATE_LIMITED THEN "reauth"
  ELSE "raise"

\* A handler that takes every 401 for the not-entitled signal.
OuterHandlerStatusOnly(err) ==
  IF err.kind # "http" THEN "fatal"
  ELSE IF err.status = NOT_ENTITLED_STATUS THEN "skip"
  ELSE "fatal"

\* The outer handler of download_track: what becomes of an exception that
\* leaves the inner try statement.
OuterHandler(err) ==
  IF err.kind # "http" THEN "fatal"
  ELSE IF <<err.status, err.sub>> = <<NOT_ENTITLED_STATUS, NOT_ENTITLED_SUB_STATUS>>
  THEN "skip"
  ELSE "fatal"

\* ------------------------------------------------------------------- state

VARIABLES
  config,     \* the configuration, fixed at startup
  job,        \* what the process was asked to download
  pc,         \* where the single thread of control stands
  albums,     \* download_discography: the listing
  albumIdx,   \* download_discography: position in the listing
  album,      \* download_album: the album
  incArtist,  \* download_album: include_artist
  tracks,     \* download_album: the listing
  trackIdx,   \* download_album: position in the listing
  cur,        \* download_track: arguments and locals
  disk,       \* the files on disk: path -> content
  io,         \* the collaborator calls of the current download_track call
              \* (or the listing call a traversal made since), with answers
  entryDisk,  \* the disk as the current download_track call found it
  outcome,    \* how the latest download_track call ended
  error,      \* the exception unwinding to the process boundary
  log,        \* the tracks download_track was called for in this run, in order
  restarts    \* how often the process was started again

vars == <<config, job, pc, albums, albumIdx, album, incArtist, tracks, trackIdx,
          cur, disk, io, entryDisk, outcome, error, log, restarts>>

albumVars == <<albums, albumIdx, album, incArtist, tracks, trackIdx>>

\* handle_track calls download_track(client, config, track); the function
\* may also be called with a sibling list and either inclusion flag.
TrackJobs ==
  [mode : {"track"}, target : {1, 3}, siblings : BOOLEAN,
   include_artist : BOOLEAN, include_album : BOOLEAN]

\* handle_album calls download_album(client, config, album).
AlbumJobs ==
  [mode : {"album"}, target : AlbumIds, siblings : {FALSE},
   include_artist : {FALSE}, include_album : {TRUE}]

\* handle_discography calls download_discography(client, config, artist).
DiscographyJobs ==
  [mode : {"discography"}, target : {0}, siblings : {FALSE},
   include_artist : {TRUE}, include_album : {TRUE}]

Jobs == TrackJobs \cup AlbumJobs \cup DiscographyJobs

EmptyDisk == [p \in {} |-> 0]

NoTrack ==
  [track |-> 0, supplied |-> FALSE, siblings |-> <<>>, include_artist |-> FALSE,
   include_album |-> FALSE, final_path |-> <<>>, temporary_path |-> <<>>,
   decryptor |-> FALSE, written |-> 0, checked |-> "none"]

\* A discography is downloaded with both inclusion flags on, so that
\* full-structure changes nothing in it: it is drawn with the flag off only.
Init ==
  /\ config \in Configs
  /\ job \in Jobs
  /\ job.mode = "discography" => ~config.full
  /\ pc = "start"
  /\ albums = <<>>
  /\ albumIdx = 0
  /\ album = 0
  /\ incArtist = FALSE
  /\ tracks = <<>>
  /\ trackIdx = 0
  /\ cur = NoTrack
  /\ disk = EmptyDisk
  /\ io = <<>>
  /\ entryDisk = EmptyDisk
  /\ outcome = "none"
  /\ error = "none"
  /\ log = <<>>
  /\ restarts = 0

\* -------------------------------------------------------------- file system

Exists(d, path) == path \in DOMAIN d

\* An open that keeps what an existing file holds and writes after it.
OpenToAppend(d, path, content) ==
  [p \in DOMAIN d \cup {path} |-> IF p \in DOMAIN d THEN d[p] ELSE content]

\* open(path, mode="wb"): the file is created, or truncated
Truncate(d, path, content) ==
  [p \in DOMAIN d \cup {path} |-> IF p = path THEN content ELSE d[p]]

\* os.remove(path)
Remove(d, path) == [p \in DOMAIN d \ {path} |-> d[p]]

\* os.rename(src, dst): dst is created or replaced, src is gone
Rename(d, src, dst) ==
  [p \in (DOMAIN d \ {src}) \cup {dst} |-> IF p = dst THEN d[src] ELSE d[p]]

\* ------------------------------------------------- download_track: helpers

\* A collaborator was called and gave this answer.
Called(name, resp) == io' = Append(io, [call |-> name, resp |-> resp])

\* The answers a collaborator gave the current download_track call.
Answers(name) ==
  LET Of(e) == e.call = name
      picked == SelectSeq(io, Of)
  IN [i \in 1..Len(picked) |-> picked[i].resp]

\* How often the current download_track call called a collaborator.
Count(name) == Len(Answers(name))

\* download_track is called.
Enter(t, siblings, include_artist, include_album) ==
  /\ cur' = [NoTrack EXCEPT !.track = t, !.supplied = (siblings # <<>>),
                            !.siblings = siblings,
                            !.include_artist = include_artist,
                            !.include_album = include_album]
  /\ io' = <<>>
  /\ entryDisk' = disk
  /\ outcome' = "running"
  /\ log' = Append(log, t)
  /\ pc' = "dt_path"

\* download_track returns to its caller.
Return(how) ==
  /\ outcome' = how
  /\ pc' = IF job.mode = "track" THEN "done" ELSE "al_next"
  /\ error' = error

\* A caller that catches the exception and goes on with the next track.
RaiseSwallowed(what) ==
  /\ outcome' = "skip_invalid"
  /\ pc' = IF job.mode = "track" THEN "done" ELSE "al_next"
  /\ error' = error

\* An exception leaves download_track; no caller catches it.
Raise(what) ==
  /\ outcome' = "fatal"
  /\ pc' = "fatal"
  /\ error' = what

\* What the outer handler does with an exception of the media resolution.
Handle(err, what) ==
  IF OuterHandler(err) = "skip" THEN Return("skip_unavailable") ELSE Raise(what)

\* ----------------------------------------------------------- the entry points

\* run: the handler of the chosen subcommand is called.
Begin ==
  /\ pc = "start"
  /\ CASE job.mode = "track" ->
            /\ Enter(job.target,
                     IF job.siblings THEN AlbumTracks(Tracks[job.target].album) ELSE <<>>,
                     job.include_artist, job.include_album)
            /\ UNCHANGED albumVars
       [] job.mode = "album" ->
            /\ pc' = "al_list"
            /\ album' = job.target
            /\ incArtist' = job.include_artist
            /\ UNCHANGED <<albums, albumIdx, tracks, trackIdx, cur, io, entryDisk,
                           outcome, log>>
       [] job.mode = "discography" ->
            /\ pc' = "dg_list"
            /\ UNCHANGED <<albumVars, cur, io, entryDisk, outcome, log>>
  /\ UNCHANGED <<config, job, disk, error, restarts>>

\* download_discography: albums = client.get_artist_albums(artist)
GetArtistAlbums ==
  /\ pc = "dg_list"
  /\ \/ /\ io' = <<[call |-> "get_artist_albums", resp |-> Ok]>>
        /\ albums' = ArtistAlbums
        /\ albumIdx' = 0
        /\ pc' = "dg_next"
        /\ error' = error
     \/ /\ io' = <<[call |-> "get_artist_albums", resp |-> Broken]>>
        /\ pc' = "fatal"
        /\ error' = "get_artist_albums"
        /\ UNCHANGED <<albums, albumIdx>>
  /\ UNCHANGED <<config, job, album, incArtist, tracks, trackIdx, cur, disk,
                 entryDisk, outcome, log, restarts>>

\* download_discography: the loop over the albums
NextAlbum ==
  /\ pc = "dg_next"
  /\ IF albumIdx < Len(albums)
     THEN /\ albumIdx' = albumIdx + 1
          /\ album' = albums[albumIdx + 1]
          /\ incArtist' = TRUE
          /\ pc' = "al_list"
     ELSE /\ pc' = "done"
          /\ UNCHANGED <<albumIdx, album, incArtist>>
  /\ UNCHANGED <<config, job, albums, tracks, trackIdx, cur, disk, io,
                 entryDisk, outcome, error, log, restarts>>

\* download_album: tracks = client.get_album_tracks(album)
GetAlbumTracks ==
  /\ pc = "al_list"
  /\ \/ /\ io' = <<[call |-> "get_album_tracks", resp |-> Ok]>>
        /\ tracks' = AlbumTracks(album)
        /\ trackIdx' = 0
        /\ pc' = "al_next"
        /\ error' = error
     \/ /\ io' = <<[call |-> "get_album_tracks", resp |-> Broken]>>
        /\ pc' = "fatal"
        /\ error' = "get_album_tracks"
        /\ UNCHANGED <<tracks, trackIdx>>
  /\ UNCHANGED <<config, job, albums, albumIdx, album, incArtist, cur, disk,
                 entryDisk, outcome, log, restarts>>

\* A loop that calls download_track without the sibling list.
NextTrackWithoutSiblings ==
  /\ pc = "al_next"
  /\ IF trackIdx < Len(tracks)
     THEN /\ trackIdx' = trackIdx + 1
          /\ Enter(tracks[trackIdx + 1], <<>>, incArtist, TRUE)
     ELSE /\ pc' = IF job.mode = "discography" THEN "dg_next" ELSE "done"
          /\ UNCHANGED <<trackIdx, cur, io, entryDisk, outcome, log>>
  /\ UNCHANGED <<config, job, albums, albumIdx, album, incArtist, tracks, disk,
                 error, restarts>>

\* A loop that walks the listing from its end.
NextTrackReversed ==
  /\ pc = "al_next"
  /\ IF trackIdx < Len(tracks)
     THEN /\ trackIdx' = trackIdx + 1
          /\ Enter(tracks[Len(tracks) - trackIdx], tracks, incArtist, TRUE)
     ELSE /\ pc' = IF job.mode = "discography" THEN "dg_next" ELSE "done"
          /\ UNCHANGED <<trackIdx, cur, io, entryDisk, outcome, log>>
  /\ UNCHANGED <<config, job, albums, albumIdx, album, incArtist, tracks, disk,
                 error, restarts>>

\* download_album: the loop over the tracks
NextTrack ==
  /\ pc = "al_next"
  /\ IF trackIdx < Len(tracks)
     THEN /\ trackIdx' = trackIdx + 1
          /\ Enter(tracks[trackIdx + 1], tracks, incArtist, TRUE)
     ELSE /\ pc' = IF job.mode = "discography" THEN "dg_next" ELSE "done"
          /\ UNCHANGED <<trackIdx, cur, io, entryDisk, outcome, log>>
  /\ UNCHANGED <<config, job, albums, albumIdx, album, incArtist, tracks, disk,
                 error, restarts>>

\* ------------------------------------------------------------ download_track

\* The paths download_track derives from get_track_path's answer.
WithPaths(c, siblings) ==
  LET track_path == get_track_path(config, c.track, siblings,
                                   c.include_artist, c.include_album)
  IN [c EXCEPT !.siblings = siblings,
               !.temporary_path = TemporaryPath(track_path, c.track),
               !.final_path = FinalPath(track_path, c.track)]

\* track_path = get_track_path(...), which fetches the album's listing when
\* it needs one and was given none; then temporary_path and final_path.
ResolvePath ==
  /\ pc = "dt_path"
  /\ IF NeedsListing(config, cur.siblings, cur.include_album)
     THEN \/ /\ Called("get_album_tracks", Ok)
             /\ cur' = WithPaths(cur, AlbumTracks(Tracks[cur.track].album))
             /\ pc' = "dt_check"
             /\ UNCHANGED <<outcome, error>>
          \/ /\ Called("get_album_tracks", Broken)
             /\ Raise("get_album_tracks")
             /\ cur' = cur
     ELSE /\ cur' = WithPaths(cur, cur.siblings)
          /\ pc' = "dt_check"
          /\ UNCHANGED <<io, outcome, error>>
  /\ UNCHANGED <<config, job, albumVars, disk, entryDisk, log, restarts>>

\* An existence check that never finds the file.
AlreadyExistsNever(d, final_path) == FALSE

\* An existence check made on the temporary path.
AlreadyExistsTemporary(d, final_path) == Exists(d, cur.temporary_path)

\* os.path.isfile(final_path)
AlreadyExists(d, final_path) == Exists(d, final_path)

\* The existence check with its return statement missing.
CheckExistsNoReturn ==
  /\ pc = "dt_check"
  /\ cur' = [cur EXCEPT !.checked =
                IF AlreadyExists(disk, cur.final_path) THEN "present" ELSE "absent"]
  /\ pc' = "dt_media"
  /\ UNCHANGED <<outcome, error>>
  /\ UNCHANGED <<config, job, albumVars, disk, io, entryDisk, log, restarts>>

\* if os.path.isfile(final_path): log and return
CheckExists ==
  /\ pc = "dt_check"
  /\ IF AlreadyExists(disk, cur.final_path)
     THEN /\ cur' = [cur EXCEPT !.checked = "present"]
          /\ Return("skip_exists")
     ELSE /\ cur' = [cur EXCEPT !.checked = "absent"]
          /\ pc' = "dt_media"
          /\ UNCHANGED <<outcome, error>>
  /\ UNCHANGED <<config, job, albumVars, disk, io, entryDisk, log, restarts>>

\* media_url, decryptor = client.get_media(track), the first request
GetMedia ==
  /\ pc = "dt_media"
  /\ \E resp \in MediaResponses :
       /\ Called("get_media", resp)
       /\ CASE InnerHandler(resp) = "ok" ->
                 /\ cur' = [cur EXCEPT !.decryptor = resp.decryptor]
                 /\ pc' = "dt_fetch"
                 /\ UNCHANGED <<outcome, error>>
            [] InnerHandler(resp) = "reauth" ->
                 /\ pc' = "dt_auth"
                 /\ UNCHANGED <<cur, outcome, error>>
            [] OTHER ->
                 /\ Handle(resp, "get_media")
                 /\ cur' = cur
  /\ UNCHANGED <<config, job, albumVars, disk, entryDisk, log, restarts>>

\* client.authenticate(), in the handler of the 429
Authenticate ==
  /\ pc = "dt_auth"
  /\ \E resp \in AuthResponses :
       /\ Called("authenticate", resp)
       /\ IF resp.kind = "ok"
          THEN /\ pc' = "dt_media2"
               /\ UNCHANGED <<outcome, error>>
          ELSE Handle(resp, "authenticate")
  /\ UNCHANGED <<config, job, albumVars, cur, disk, entryDisk, log, restarts>>

\* A retry that handles a second 429 like the first.
RetryHandlerLoops(resp) == InnerHandler(resp)

\* What follows the second get_media, made in the handler of the 429: an
\* exception leaves the inner try statement.
RetryHandler(resp) == IF resp.kind = "ok" THEN "ok" ELSE "raise"

\* media_url, decryptor = client.get_media(track), the request after the 429
GetMediaAgain ==
  /\ pc = "dt_media2"
  /\ \E resp \in MediaResponses :
       /\ Called("get_media", resp)
       /\ CASE RetryHandler(resp) = "ok" ->
                 /\ cur' = [cur EXCEPT !.decryptor = resp.decryptor]
                 /\ pc' = "dt_fetch"
                 /\ UNCHANGED <<outcome, error>>
            [] RetryHandler(resp) = "reauth" ->
                 /\ pc' = "dt_auth"
                 /\ UNCHANGED <<cur, outcome, error>>
            [] OTHER ->
                 /\ Handle(resp, "get_media")
                 /\ cur' = cur
  /\ UNCHANGED <<config, job, albumVars, disk, entryDisk, log, restarts>>

\* os.makedirs(...); request = requests.get(media_url, stream=True);
\* request.raise_for_status()
FetchStream ==
  /\ pc = "dt_fetch"
  /\ \/ /\ Called("stream", Ok)
        /\ pc' = "dt_open"
        /\ UNCHANGED <<outcome, error>>
     \/ /\ Called("stream", Broken)
        /\ Raise("stream")
  /\ UNCHANGED <<config, job, albumVars, cur, disk, entryDisk, log, restarts>>

\* What a file holds: the track it was streamed from, how many chunks of the
\* stream, whether it is still encrypted, whether it carries the metadata.
NewFile(c) ==
  [src |-> c.track, chunks |-> 0, encrypted |-> c.decryptor, tagged |-> FALSE]

\* with open(temporary_path, mode="wb") as temp_file
OpenTemporary ==
  /\ pc = "dt_open"
  /\ disk' = Truncate(disk, cur.temporary_path, NewFile(cur))
  /\ pc' = "dt_stream"
  /\ UNCHANGED <<config, job, albumVars, cur, io, entryDisk, outcome, error, log,
                 restarts>>

\* for chunk in iterator: temp_file.write(chunk)
WriteChunk ==
  /\ pc = "dt_stream"
  /\ cur.written < NumChunks
  /\ disk' = [disk EXCEPT ![cur.temporary_path].chunks = @ + 1]
  /\ cur' = [cur EXCEPT !.written = @ + 1]
  /\ UNCHANGED <<config, job, pc, albumVars, io, entryDisk, outcome, error,
                 log, restarts>>

\* The stream breaks before its last chunk (or, with the progress bar, has no
\* Content-Length header): the exception leaves download_track.
StreamFails ==
  /\ pc = "dt_stream"
  /\ cur.written < NumChunks
  /\ Called("iter_content", Broken)
  /\ Raise("stream")
  /\ UNCHANGED <<config, job, albumVars, cur, disk, entryDisk, log, restarts>>

\* The iterator is exhausted and the with statement closes the file.
CloseTemporary ==
  /\ pc = "dt_stream"
  /\ cur.written = NumChunks
  /\ pc' = "dt_decrypt"
  /\ UNCHANGED <<config, job, albumVars, cur, disk, io, entryDisk, outcome, error,
                 log, restarts>>

\* decryptor(temporary_path): the file decrypted in place
Decrypted(d, path) == [d EXCEPT ![path].encrypted = FALSE]

\* A download that goes on to the metadata without decrypting.
DecryptSkipped ==
  /\ pc = "dt_decrypt"
  /\ pc' = "dt_meta"
  /\ UNCHANGED <<disk, io, outcome, error>>
  /\ UNCHANGED <<config, job, albumVars, cur, entryDisk, log, restarts>>

\* if decryptor: decryptor(temporary_path)
Decrypt ==
  /\ pc = "dt_decrypt"
  /\ IF cur.decryptor
     THEN \/ /\ Called("decryptor", Ok)
             /\ disk' = Decrypted(disk, cur.temporary_path)
             /\ pc' = "dt_meta"
             /\ UNCHANGED <<outcome, error>>
          \/ /\ Called("decryptor", Broken)
             /\ Raise("decryptor")
             /\ disk' = disk
     ELSE /\ pc' = "dt_meta"
          /\ UNCHANGED <<disk, io, outcome, error>>
  /\ UNCHANGED <<config, job, albumVars, cur, entryDisk, log, restarts>>

\* if not config["skip-metadata"]: resolve_metadata, which first fetches the
\* album's cover when the album has one
ResolveCover ==
  /\ pc = "dt_meta"
  /\ IF config.skipMeta
     THEN /\ pc' = "dt_rename"
          /\ UNCHANGED <<io, outcome, error>>
     ELSE IF Albums[Tracks[cur.track].album].cover
     THEN \/ /\ Called("cover", Ok)
             /\ pc' = "dt_embed"
             /\ UNCHANGED <<outcome, error>>
          \/ /\ Called("cover", Broken)
             /\ Raise("cover")
     ELSE /\ pc' = "dt_embed"
          /\ UNCHANGED <<io, outcome, error>>
  /\ UNCHANGED <<config, job, albumVars, cur, disk, entryDisk, log, restarts>>

\* The embedder wrote the tags into the file.
Tagged(d, path) == [d EXCEPT ![path].tagged = TRUE]

\* An invalid file that is skipped with the temporary file left behind.
InvalidFileKeepsTemporary ==
  /\ disk' = disk
  /\ Return("skip_invalid")

\* An invalid file whose exception is not caught.
InvalidFileRaises ==
  /\ disk' = disk
  /\ Raise("InvalidFileError")

\* except metadata.InvalidFileError: log; os.remove(temporary_path); return
InvalidFile ==
  /\ disk' = Remove(disk, cur.temporary_path)
  /\ Return("skip_invalid")

\* resolve_metadata: the embedder chosen by track.extension writes the tags,
\* raises InvalidFileError, or raises something else (no embedder for the
\* extension, an I/O error)
Embed ==
  /\ pc = "dt_embed"
  /\ \/ /\ Called("embed", Ok)
        /\ disk' = Tagged(disk, cur.temporary_path)
        /\ pc' = "dt_rename"
        /\ UNCHANGED <<outcome, error>>
     \/ /\ Called("embed", Invalid)
        /\ InvalidFile
     \/ /\ Called("embed", Broken)
        /\ Raise("embed")
        /\ disk' = disk
  /\ UNCHANGED <<config, job, albumVars, cur, entryDisk, log, restarts>>

\* os.rename(temporary_path, final_path)
Finalize ==
  /\ pc = "dt_rename"
  /\ disk' = Rename(disk, cur.temporary_path, cur.final_path)
  /\ Return("finalized")
  /\ UNCHANGED <<config, job, albumVars, cur, io, entryDisk, log, restarts>>

\* ------------------------------------------------------- the process boundary

Ended == pc \in {"done", "fatal", "interrupted"}

\* What a process that is gone leaves behind: the disk, and nothing in memory.
Gone ==
  /\ albums' = <<>>
  /\ albumIdx' = 0
  /\ album' = 0
  /\ incArtist' = FALSE
  /\ tracks' = <<>>
  /\ trackIdx' = 0
  /\ cur' = NoTrack
  /\ io' = <<>>
  /\ entryDisk' = EmptyDisk
  /\ outcome' = "none"
  /\ error' = "none"
  /\ log' = <<>>

\* KeyboardInterrupt, or the process is killed: it may happen at any point.
Interrupt ==
  /\ ~Ended
  /\ pc # "start"
  /\ pc' = "interrupted"
  /\ Gone
  /\ UNCHANGED <<config, job, disk, restarts>>

\* The user runs the same command again; only the disk is kept.
Restart ==
  /\ Ended
  /\ restarts < MaxRestarts
  /\ restarts' = restarts + 1
  /\ pc' = "start"
  /\ Gone
  /\ UNCHANGED <<config, job, disk>>

Next ==
  \/ Begin
  \/ GetArtistAlbums
  \/ NextAlbum
  \/ GetAlbumTracks
  \/ NextTrack
  \/ ResolvePath
  \/ CheckExists
  \/ GetMedia
  \/ Authenticate
  \/ GetMediaAgain
  \/ FetchStream
  \/ OpenTemporary
  \/ WriteChunk
  \/ StreamFails
  \/ CloseTemporary
  \/ Decrypt
  \/ ResolveCover
  \/ Embed
  \/ Finalize
  \/ Interrupt
  \/ Restart

Spec == Init /\ [][Next]_vars

\* ------------------------------------------------------- sanitize on its own

\* The characters of the strings sanitize is applied to: letters of either
\* case, the letter whose lower case is two characters, the two separators
\* of the nice style, the character the plain style removes, and one that
\* only the nice style removes.
SanitizeAlphabet == {"a", "A", "Idot", " ", "-", "/", "."}

StringsUpTo(n) == UNION {[1..k -> SanitizeAlphabet] : k \in 0..n}

\* sanitize(config, string) for a string of the caller's
SanitizeJobs == [mode : {"sanitize"}, string : StringsUpTo(MaxLen)]

\* Nothing of a download is in progress.
AtRest ==
  /\ albums = <<>>
  /\ albumIdx = 0
  /\ album = 0
  /\ incArtist = FALSE
  /\ tracks = <<>>
  /\ trackIdx = 0
  /\ disk = EmptyDisk
  /\ io = <<>>
  /\ entryDisk = EmptyDisk
  /\ outcome = "none"
  /\ error = "none"
  /\ log = <<>>
  /\ restarts = 0

SanitizeInit ==
  /\ config \in {c \in Configs : ~c.full /\ ~c.skipMeta}
  /\ job \in SanitizeJobs
  /\ pc = "sn_start"
  /\ cur = NoTrack
  /\ AtRest

\* sanitize(config, string)
Sanitize ==
  /\ pc = "sn_start"
  /\ cur' = [string |-> job.string, result |-> sanitize(config, job.string)]
  /\ pc' = "sn_once"
  /\ UNCHANGED <<config, job, albumVars, disk, io, entryDisk, outcome, error, log,
                 restarts>>

\* sanitize(config, s) for the string s the first call returned
SanitizeAgain ==
  /\ pc = "sn_once"
  /\ cur' = [string |-> cur.result, result |-> sanitize(config, cur.result)]
  /\ pc' = "sn_twice"
  /\ UNCHANGED <<config, job, albumVars, disk, io, entryDisk, outcome, error, log,
                 restarts>>

SanitizeNext ==
  \/ Sanitize
  \/ SanitizeAgain

SanitizeSpec == SanitizeInit /\ [][SanitizeNext]_vars

\* ------------------------------------------------- get_track_path on its own

\* The disc and track numbers of the listings: one and two digits.
DiscValues == {1, 2, 10}

NumValues == {1, 2, 10}

\* The names of the track: a letter, and a name that begins with a number.
TrackNames == {<<"a">>, <<"1", " ", "A">>}

\* client.get_album_tracks(track.album): the disc and track number of every
\* track of the album, in the order of the listing
Listings ==
  UNION {[1..k -> [disc : DiscValues, num : NumValues]] : k \in 1..MaxSiblings}

\* get_track_path(client, config, track, siblings, include_artist,
\* include_album) for the track at a position of its album's listing, with
\* that listing supplied as siblings or not
PathJobs ==
  {j \in [mode : {"path"}, name : TrackNames, listing : Listings,
          index : 1..MaxSiblings, supplied : BOOLEAN,
          include_artist : BOOLEAN, include_album : BOOLEAN] :
     j.index <= Len(j.listing)}

PathInit ==
  /\ config \in {c \in Configs : ~c.skipMeta}
  /\ job \in PathJobs
  /\ pc = "gp_start"
  /\ cur = [siblings |-> IF job.supplied THEN job.listing ELSE <<>>]
  /\ AtRest

\* siblings = siblings or client.get_album_tracks(track.album), when album
\* inclusion is active
FetchSiblings ==
  /\ pc = "gp_start"
  /\ IF (job.include_album \/ config.full) /\ cur.siblings = <<>>
     THEN \/ /\ io' = <<[call |-> "get_album_tracks", resp |-> Ok]>>
             /\ cur' = [siblings |-> job.listing]
             /\ pc' = "gp_build"
             /\ error' = error
          \/ /\ io' = <<[call |-> "get_album_tracks", resp |-> Broken]>>
             /\ pc' = "fatal"
             /\ error' = "get_album_tracks"
             /\ cur' = cur
     ELSE /\ pc' = "gp_build"
          /\ UNCHANGED <<cur, io, error>>
  /\ UNCHANGED <<config, job, albumVars, disk, entryDisk, outcome, log, restarts>>

\* The fragments and the path get_track_path returns.
BuildPath ==
  /\ pc = "gp_build"
  /\ LET track == [name |-> job.name, disc |-> job.listing[job.index].disc,
                   num |-> job.listing[job.index].num]
         discs == [i \in 1..Len(cur.siblings) |-> cur.siblings[i].disc]
         numbers == [i \in 1..Len(cur.siblings) |-> cur.siblings[i].num]
         fragments == PathFragments(config, track, ArtistName, Albums[1].name,
                                    discs, numbers,
                                    job.include_artist, job.include_album)
     IN cur' = [siblings |-> cur.siblings, fragments |-> fragments,
                track_path |-> JoinFragments(fragments)]
  /\ pc' = "gp_done"
  /\ UNCHANGED <<config, job, albumVars, disk, io, entryDisk, outcome, error, log,
                 restarts>>

PathNext ==
  \/ FetchSiblings
  \/ BuildPath

PathSpec == PathInit /\ [][PathNext]_vars

\* ------------------------------------------------- vocabulary of the claims

Skips == {"skip_exists", "skip_unavailable", "skip_invalid"}

\* download_track has just returned to its caller: handle_track, or the loop
\* of download_album.
AtReturn ==
  /\ outcome \in Skips \cup {"finalized"}
  /\ IF job.mode = "track" THEN pc = "done" ELSE pc = "al_next" /\ trackIdx > 0

\* download_track has computed its paths.
PathKnown == cur.final_path # <<>>

\* The download_track calls this process makes: the track and the flags.
CallsOf(j) ==
  CASE j.mode = "track" ->
         {[track |-> j.target, include_artist |-> j.include_artist,
           include_album |-> j.include_album]}
    [] j.mode = "album" ->
         {[track |-> t, include_artist |-> FALSE, include_album |-> TRUE] :
            t \in {Albums[j.target].tracks[i] : i \in 1..Len(Albums[j.target].tracks)}}
    [] j.mode = "discography" ->
         {[track |-> t, include_artist |-> TRUE, include_album |-> TRUE] : t \in TrackIds}

PathOf(c) ==
  get_track_path(config, c.track, AlbumTracks(Tracks[c.track].album),
                 c.include_artist, c.include_album)

FinalOf(c) == FinalPath(PathOf(c), c.track)

TemporaryOf(c) == TemporaryPath(PathOf(c), c.track)

FinalPaths == {FinalOf(c) : c \in CallsOf(job)}

TemporaryPaths == {TemporaryOf(c) : c \in CallsOf(job)}

\* The whole stream, decrypted where it came encrypted, with its metadata
\* unless the configuration skips them.
Complete(f) ==
  /\ f.chunks = NumChunks
  /\ ~f.encrypted
  /\ f.tagged \/ config.skipMeta

\* The tracks a run that ends normally calls download_track for, in order.
ExpectedLog ==
  CASE job.mode = "track" -> <<job.target>>
    [] job.mode = "album" -> AlbumTracks(job.target)
    [] job.mode = "discography" ->
         AlbumTracks(ArtistAlbums[1]) \o AlbumTracks(ArtistAlbums[2])

IsPrefix(s, t) == Len(s) <= Len(t) /\ s = SubSeq(t, 1, Len(s))

MediaAnswers == Answers("get_media")

IsRateLimit(r) == r.kind = "http" /\ r.status = RATE_LIMITED

IsNotEntitled(r) ==
  r.kind = "http" /\ r.status = NOT_ENTITLED_STATUS /\ r.sub = NOT_ENTITLED_SUB_STATUS

\* Every get_media call of the current download_track call was answered 429.
AllRateLimited ==
  /\ MediaAnswers # <<>>
  /\ \A i \in 1..Len(MediaAnswers) : IsRateLimit(MediaAnswers[i])

\* ------------------------------------------------------------------ claims

\* The arguments of the current download_track call.
CurrentCall ==
  [track |-> cur.track, include_artist |-> cur.include_artist,
   include_album |-> cur.include_album]

\* The final path of the current download_track call: the one the call
\* computed, or the one it is about to compute.
CurrentFinal == IF PathKnown THEN cur.final_path ELSE FinalOf(CurrentCall)

\* The current download_track call found a file at its track's final path.
FinalExistedAtEntry ==
  /\ cur.track # 0
  /\ entryDisk # EmptyDisk
  /\ Exists(entryDisk, CurrentFinal)

\* C1, as the specification states it: a download_track call for a track
\* whose final path exists returns as a skip having made no network call of
\* any kind, get_album_tracks included, and having left the disk as it was.
C1_NoNetworkCallOfAnyKind ==
  FinalExistedAtEntry =>
    /\ outcome = "running" => pc \in {"dt_path", "dt_check"} /\ disk = entryDisk
    /\ outcome # "fatal"
    /\ AtReturn => /\ outcome = "skip_exists"
                   /\ io = <<>>
                   /\ disk = entryDisk

\* C1, amended: a download_track call for a track whose final path exists
\* never calls get_media, authenticate, the stream fetch or the cover fetch
\* and leaves the disk as it was; the one network call it makes is the
\* get_album_tracks of the path resolution, made exactly when album
\* inclusion is active (include_album or full-structure) and no sibling
\* list was supplied; when that call succeeds, or is not made,
\* download_track returns as a skip, and when it fails its error leaves
\* download_track.
C1_NoTransferWhenFinalExists ==
  LET listings == IF (cur.include_album \/ config.full) /\ ~cur.supplied
                  THEN 1 ELSE 0
  IN
  FinalExistedAtEntry =>
    /\ outcome = "running" => pc \in {"dt_path", "dt_check"} /\ disk = entryDisk
    /\ outcome = "fatal" =>
         /\ listings = 1
         /\ io = <<[call |-> "get_album_tracks", resp |-> Broken]>>
         /\ error = "get_album_tracks"
         /\ disk = entryDisk
    /\ AtReturn =>
         /\ outcome = "skip_exists"
         /\ disk = entryDisk
         /\ Count("get_media") = 0
         /\ Count("authenticate") = 0
         /\ Count("stream") = 0
         /\ Count("cover") = 0
         /\ Count("get_album_tracks") = listings
         /\ Len(io) = listings
         /\ listings = 1 => io[1].resp = Ok

\* C1, witness: a skip of an existing file, reached after the path resolution
\* fetched the album's listing.
C1_Witness ==
  /\ AtReturn
  /\ outcome = "skip_exists"
  /\ Exists(entryDisk, cur.final_path)
  /\ Count("get_album_tracks") = 1

\* C2, as the specification states it: a file at a track's final path holds
\* that track's whole stream, decrypted where a decryptor was supplied and
\* tagged unless metadata are skipped; no step before the rename puts a file
\* at a final path.
C2_FinalFileOnlyAfterRename ==
  \A p \in DOMAIN disk :
    p \in FinalPaths =>
      /\ Complete(disk[p])
      /\ \E c \in CallsOf(job) : c.track = disk[p].src /\ FinalOf(c) = p

\* C3, as the specification states it: when every get_media call is answered
\* 429, download_track ends having authenticated exactly once and called
\* get_media exactly twice, with a fatal error and the disk untouched.
C3_OneReauthTwoRequests ==
  (AllRateLimited /\ outcome # "running") =>
    /\ Count("authenticate") = 1
    /\ Count("get_media") = 2
    /\ outcome = "fatal"
    /\ pc = "fatal"
    /\ disk = entryDisk

\* C3, amended: download_track never authenticates more than once nor calls
\* get_media more than twice; when every get_media call is answered 429 it
\* ends having called authenticate exactly once and having left the disk
\* untouched, and if that authenticate succeeded it made exactly two
\* get_media calls and the second 429 leaves it as a fatal error, while if
\* authenticate itself failed no second get_media call was made and that
\* failure is fatal, except an HTTP 401 with subStatus 4005, which is
\* logged as a skip.
C3_BoundedRetry ==
  /\ Count("authenticate") <= 1
  /\ Count("get_media") <= 2
  /\ (AllRateLimited /\ outcome # "running") =>
       /\ Count("authenticate") = 1
       /\ disk = entryDisk
       /\ IF Answers("authenticate")[1].kind = "ok"
          THEN /\ Count("get_media") = 2
               /\ outcome = "fatal"
               /\ pc = "fatal"
               /\ error = "get_media"
          ELSE /\ Count("get_media") = 1
               /\ IF IsNotEntitled(Answers("authenticate")[1])
                  THEN outcome = "skip_unavailable" /\ error = "none"
                  ELSE outcome = "fatal" /\ pc = "fatal" /\ error = "authenticate"

\* C3, witness: two get_media calls, both answered 429, and the fatal error.
C3_Witness ==
  /\ AllRateLimited
  /\ Count("get_media") = 2
  /\ Count("authenticate") = 1
  /\ pc = "fatal"

\* C4: when the embedder reports an invalid file, download_track returns
\* with neither the final nor the temporary file on disk and no error
\* unwinding, and the loop of download_album goes on: its next step calls
\* download_track for the next track of the listing, or ends the album when
\* the listing is exhausted.
C4_InvalidFileIsSkipped ==
  [][/\ (AtReturn /\ outcome = "skip_invalid")' =>
          /\ ~Exists(disk', cur'.final_path)
          /\ ~Exists(disk', cur'.temporary_path)
          /\ error' = "none"
          /\ io'[Len(io')] = [call |-> "embed", resp |-> Invalid]
     /\ (AtReturn /\ outcome = "skip_invalid" /\ job.mode # "track"
           /\ pc' # "interrupted") =>
          IF trackIdx < Len(tracks)
          THEN /\ pc' = "dt_path"
               /\ cur'.track = tracks[trackIdx + 1]
               /\ log' = Append(log, tracks[trackIdx + 1])
          ELSE pc' \in {"dg_next", "done"} /\ error' = "none"
    ]_vars

\* C4, witness: the first track of an album was skipped as an invalid file
\* and the second one is being downloaded.
C4_Witness ==
  /\ AtReturn
  /\ outcome = "skip_invalid"
  /\ job.mode = "album"
  /\ trackIdx = 1
  /\ Len(tracks) = 2
  /\ ~Exists(disk, cur.temporary_path)

\* C5: a failure of get_media with an HTTP error, other than a first 429,
\* ends download_track at once, with no stream fetch and the disk untouched:
\* as a skip when the error is 401 with subStatus 4005, and as a fatal
\* error, with no further get_media call, in every other case.
C5_SkipExactlyWhenNotEntitled ==
  LET last == MediaAnswers[Len(MediaAnswers)] IN
  (/\ MediaAnswers # <<>>
   /\ last.kind = "http"
   /\ ~(Len(MediaAnswers) = 1 /\ IsRateLimit(last))) =>
     /\ io[Len(io)] = [call |-> "get_media", resp |-> last]
     /\ Count("stream") = 0
     /\ disk = entryDisk
     /\ IF last.status = NOT_ENTITLED_STATUS /\ last.sub = NOT_ENTITLED_SUB_STATUS
        THEN outcome = "skip_unavailable" /\ error = "none" /\ pc # "fatal"
        ELSE outcome = "fatal" /\ error = "get_media" /\ pc = "fatal"

\* C5, witness: the request after a 429 is answered not-entitled and the
\* track is skipped.
C5_Witness ==
  /\ Len(MediaAnswers) = 2
  /\ IsNotEntitled(MediaAnswers[2])
  /\ outcome = "skip_unavailable"
  /\ AtReturn

\* C6, as the specification states it: whenever download_track returns with
\* a skip, no file exists at the track's temporary path.
C6_SkipLeavesNoTemporary ==
  (AtReturn /\ outcome \in Skips) => ~Exists(disk, cur.temporary_path)

\* C7: download_track never touches a file that exists at its final path:
\* get_media, the stream fetch and every later step run only after the
\* check found the final path absent, the final path is still absent when
\* the rename is reached, a file found at the final path is unchanged while
\* and after the call runs, and a call that finalizes found none there.
C7_NoOverwrite ==
  /\ pc \in {"dt_media", "dt_auth", "dt_media2", "dt_fetch", "dt_open", "dt_stream",
             "dt_decrypt", "dt_meta", "dt_embed", "dt_rename"} =>
       /\ cur.checked = "absent"
       /\ ~Exists(entryDisk, cur.final_path)
       /\ ~Exists(disk, cur.final_path)
  /\ (outcome = "running" /\ Count("get_media") + Count("stream") > 0) =>
       cur.checked = "absent"
  /\ ((outcome = "running" \/ AtReturn) /\ PathKnown
        /\ Exists(entryDisk, cur.final_path)) =>
       /\ Exists(disk, cur.final_path)
       /\ disk[cur.final_path] = entryDisk[cur.final_path]
  /\ (AtReturn /\ outcome = "finalized") =>
       /\ ~Exists(entryDisk, cur.final_path)
       /\ cur.checked = "absent"

\* C7, witness: the rename is reached in a run that found other files of
\* an earlier run on disk.
C7_Witness ==
  /\ pc = "dt_rename"
  /\ restarts = 1
  /\ entryDisk # EmptyDisk
  /\ ~Exists(disk, cur.final_path)

FatalKinds ==
  {"get_album_tracks", "get_artist_albums", "get_media", "authenticate", "stream",
   "decryptor", "cover", "embed"}

\* C8: a skip never unwinds: the process ends with an error only for a
\* listing, media, authentication, stream, decryptor, cover or embedder
\* failure other than an invalid file; a
\* download_track call that skipped leaves no error; the step after a skip
\* calls download_track for the next track of the album, or ends the album
\* and hands over to the next album; the calls of a run follow the listings
\* in order, and a run that ends normally has called download_track for
\* every track of every album.
C8_SkipsAreContained ==
  /\ [](pc = "fatal" => error \in FatalKinds)
  /\ []((AtReturn /\ outcome \in Skips) => error = "none")
  /\ [](IsPrefix(log, ExpectedLog))
  /\ [](pc = "done" => log = ExpectedLog)
  /\ [][(AtReturn /\ outcome \in Skips /\ job.mode # "track"
           /\ pc' # "interrupted") =>
          IF trackIdx < Len(tracks)
          THEN pc' = "dt_path" /\ log' = Append(log, tracks[trackIdx + 1])
          ELSE pc' = (IF job.mode = "discography" THEN "dg_next" ELSE "done")
       ]_vars
  /\ [][(pc = "dg_next" /\ albumIdx < Len(albums) /\ pc' # "interrupted") =>
          pc' = "al_list" /\ album' = albums[albumIdx + 1]
       ]_vars

\* C8, witness: a discography run ended normally although its first track
\* was skipped (it has no file) while a later track was downloaded.
C8_Witness ==
  /\ pc = "done"
  /\ job.mode = "discography"
  /\ restarts = 0
  /\ log = <<1, 2, 4, 3>>
  /\ ~Exists(disk, FinalOf([track |-> 1, include_artist |-> TRUE, include_album |-> TRUE]))
  /\ Exists(disk, FinalOf([track |-> 3, include_artist |-> TRUE, include_album |-> TRUE]))

\* The latest collaborator call failed in a way the specification calls
\* fatal: a listing, the stream, the cover, the decryptor, or a get_media
\* failure that is neither a first 429 nor the not-entitled signal.
FatalFailure ==
  /\ io # <<>>
  /\ LET last == io[Len(io)] IN
       /\ last.resp.kind \notin {"ok", "invalid"}
       /\ \/ last.call \in {"get_album_tracks", "get_artist_albums", "stream",
                            "iter_content", "cover", "decryptor"}
          \/ /\ last.call = "get_media"
             /\ ~(Len(MediaAnswers) = 1 /\ IsRateLimit(last.resp))
             /\ ~IsNotEntitled(last.resp)

\* C9: a fatal failure aborts the whole operation: as soon as a listing
\* fetch, the stream, the cover fetch, the decryptor or a get_media call
\* fails fatally the process stands at its boundary with that error, and
\* from there no step follows but a new start of the process: no later
\* track or album is attempted.
C9_FatalAborts ==
  /\ [](FatalFailure => (pc = "fatal" /\ error = (IF io[Len(io)].call = "iter_content"
                                                  THEN "stream"
                                                  ELSE io[Len(io)].call)))
  /\ [][pc = "fatal" => (pc' = "start" /\ log' = <<>> /\ restarts' = restarts + 1
                           /\ disk' = disk)]_vars

\* C9, witness: the decryptor failed on the first track of an album that has
\* a second track, and the process stands at its boundary.
C9_Witness ==
  /\ pc = "fatal"
  /\ error = "decryptor"
  /\ job.mode = "album"
  /\ trackIdx = 1
  /\ log = <<tracks[1]>>

\* Files under a temporary name that is no track's final name.
TemporaryNamedFiles == {p \in DOMAIN disk : p \in TemporaryPaths \ FinalPaths}

\* C10, as the specification states it: an interrupted process, also one
\* that was run again and interrupted again, leaves at most one file under
\* a temporary name and no file at a final path that is partial, encrypted
\* or untagged.
C10_InterruptLeavesCleanDisk ==
  pc = "interrupted" =>
    /\ Cardinality(TemporaryNamedFiles) <= 1
    /\ \A p \in DOMAIN disk : p \in FinalPaths => Complete(disk[p])

\* The steps of download_track.
TrackSteps ==
  {"dt_path", "dt_check", "dt_media", "dt_auth", "dt_media2", "dt_fetch", "dt_open",
   "dt_stream", "dt_decrypt", "dt_meta", "dt_embed", "dt_rename"}

Terminal == Skips \cup {"finalized"}

\* The tracks of the first k albums of a listing of albums, album by album,
\* each in the order of its own listing.
RECURSIVE TracksOfAlbums(_, _)
TracksOfAlbums(list, k) ==
  IF k = 0 THEN <<>> ELSE TracksOfAlbums(list, k - 1) \o AlbumTracks(list[k])

\* The paths whose file a step created, changed or removed.
Touched(d, e) ==
  {p \in DOMAIN d \cup DOMAIN e : ~(p \in DOMAIN d /\ p \in DOMAIN e /\ d[p] = e[p])}

\* C11: the traversal is sequential and keeps the order of the listings:
\* while download_album works on an album, its list is the listing as
\* get_album_tracks returned it, the track download_track works on is the
\* one at the loop's position, and the calls made so far are the tracks of
\* the albums before it, album by album in the order get_artist_albums
\* returned them, followed by this album's tracks up to the position; a
\* new download_track call is made only by the loop, for the next track of
\* the listing, after the call before it returned finalized or skipped;
\* and a step that changes the disk is a step of the running call and
\* touches that call's temporary or final path only.
C11_SequentialInOrder ==
  /\ []((job.mode # "track" /\ pc \in TrackSteps \cup {"al_next"}) =>
          LET before == IF job.mode = "discography"
                        THEN TracksOfAlbums(ArtistAlbums, albumIdx - 1) ELSE <<>>
          IN /\ tracks = AlbumTracks(album)
             /\ job.mode = "discography" =>
                  albums = ArtistAlbums /\ album = ArtistAlbums[albumIdx]
             /\ log = before \o SubSeq(tracks, 1, trackIdx)
             /\ pc \in TrackSteps =>
                  cur.track = tracks[trackIdx] /\ outcome = "running"
             /\ (pc = "al_next" /\ trackIdx > 0) =>
                  cur.track = tracks[trackIdx] /\ outcome \in Terminal)
  /\ []((job.mode = "discography" /\ pc = "dg_next") =>
          log = TracksOfAlbums(ArtistAlbums, albumIdx))
  /\ [][(log' # log /\ log' # <<>>) =>
          /\ pc \in {"al_next", "start"}
          /\ pc' = "dt_path"
          /\ log # <<>> => outcome \in Terminal
          /\ pc = "al_next" => log' = Append(log, tracks[trackIdx + 1])
       ]_vars
  /\ [][disk' # disk =>
          /\ pc \in TrackSteps
          /\ outcome = "running"
          /\ cur' = cur \/ pc = "dt_stream"
          /\ Touched(disk, disk') \subseteq {cur.temporary_path, cur.final_path}
       ]_vars

\* C11, witness: the last track of a discography is being renamed after
\* download_track was called for the tracks of both albums in listing order,
\* which for the second album is not the order of the track numbers.
C11_Witness ==
  /\ job.mode = "discography"
  /\ log = <<1, 2, 4, 3>>
  /\ pc = "dt_rename"
  /\ restarts = 0
  /\ Tracks[log[3]].num > Tracks[log[4]].num

\* The steps of download_track from the opening of the temporary file on.
FileSteps == {"dt_stream", "dt_decrypt", "dt_meta", "dt_embed", "dt_rename"}

\* C12, as the specification states it: the temporary path of a track of
\* this job is the final path of no track of this job, itself included, so
\* that the file a download_track call is writing never stands at a path
\* that an existence check takes for a track's final file.
C12_TemporaryNeverFinal ==
  /\ \A c \in CallsOf(job) : \A d \in CallsOf(job) : TemporaryOf(c) # FinalOf(d)
  /\ (pc \in FileSteps /\ outcome = "running") => cur.temporary_path \notin FinalPaths

\* C13, as the specification states it: sanitize applied to its own result
\* returns that result, for every string and under both naming styles.
C13_SanitizeIdempotent == pc = "sn_twice" => cur.result = cur.string

\* get_track_path returned.
PathBuilt == pc = "gp_done"

\* Album inclusion is active.
AlbumIncluded == job.include_album \/ config.full

\* The largest element of a non-empty set of numbers.
MaxOf(S) == CHOOSE m \in S : \A x \in S : x <= m

\* The number of decimal digits of a natural number.
DigitCount(n) == CHOOSE k \in 1..4 : (k = 1 \/ 10^(k - 1) <= n) /\ n < 10^k

AllDigits(s) == \A i \in 1..Len(s) : s[i] \in DigitSet

DigitValue(c) == CHOOSE i \in 0..9 : Digits[i + 1] = c

\* The number a string of digits denotes.
RECURSIVE ParseNat(_)
ParseNat(s) ==
  IF s = <<>> THEN 0
  ELSE 10 * ParseNat(SubSeq(s, 1, Len(s) - 1)) + DigitValue(s[Len(s)])

\* The components of a path: what stands between its slashes.
RECURSIVE Components(_, _)
Components(path, word) ==
  IF path = <<>> THEN <<word>>
  ELSE IF Head(path) = "/" THEN <<word>> \o Components(Tail(path), <<>>)
  ELSE Components(Tail(path), Append(word, Head(path)))

\* A path component up to its first space or hyphen.
RECURSIVE UpToSeparator(_)
UpToSeparator(s) ==
  IF s = <<>> \/ Head(s) \in {" ", "-"} THEN <<>>
  ELSE <<Head(s)>> \o UpToSeparator(Tail(s))

\* A path component after its first space or hyphen.
RECURSIVE AfterSeparator(_)
AfterSeparator(s) ==
  IF s = <<>> THEN <<>>
  ELSE IF Head(s) \in {" ", "-"} THEN Tail(s)
  ELSE AfterSeparator(Tail(s))

ListedDiscs == {job.listing[i].disc : i \in DOMAIN job.listing}

ListedNumbers == {job.listing[i].num : i \in DOMAIN job.listing}

\* The components of the path get_track_path returned.
PathComponents == Components(cur.track_path, <<>>)

\* C14: when album inclusion is active, the file component of the path
\* get_track_path returns begins with the track's number written in as
\* many digits as the largest track number of the album's listing has,
\* filled with zeros, and the disc component, when there is one, ends in the
\* track's disc number written in as many digits as the largest disc number
\* of the listing has: the widths depend on the set of numbers listed only,
\* neither on the track resolved nor on the order of the listing nor on
\* whether the listing was supplied or fetched.
C14_PaddingWidth ==
  (PathBuilt /\ AlbumIncluded) =>
    LET n == Len(PathComponents)
        number_segment == UpToSeparator(PathComponents[n])
        disc_segment == AfterSeparator(PathComponents[n - 1])
    IN /\ AllDigits(number_segment)
       /\ Len(number_segment) = DigitCount(MaxOf(ListedNumbers))
       /\ ParseNat(number_segment) = job.listing[job.index].num
       /\ cur.fragments.disc_path # <<>> =>
            /\ PathComponents[n - 1] = cur.fragments.disc_path
            /\ AllDigits(disc_segment)
            /\ Len(disc_segment) = DigitCount(MaxOf(ListedDiscs))
            /\ ParseNat(disc_segment) = job.listing[job.index].disc

\* C14, witness: a path with a disc component was built for a track whose
\* disc and track numbers have one digit, in an album whose largest disc and
\* track numbers have two, listed after the track.
C14_Witness ==
  /\ PathBuilt
  /\ AlbumIncluded
  /\ job.index = 1
  /\ job.listing[1].num < 10
  /\ job.listing[1].disc < 10
  /\ MaxOf(ListedNumbers) >= 10
  /\ MaxOf(ListedDiscs) >= 10
  /\ Len(cur.fragments.disc_path) = 7

\* The positions in io of the calls of a collaborator.
CallsAt(names) == {i \in DOMAIN io : io[i].call \in names}

\* C15: the decryptor is invoked at most once per download_track call; a
\* call that reaches the metadata step, finalizes, or skips an invalid file
\* has invoked it exactly once if get_media supplied one and never if not;
\* a call that has not yet written the whole stream, or that skipped because
\* the file exists or the track is not available, has never invoked it; the
\* invocation follows the stream fetch and every chunk and precedes the
\* cover fetch and the embedder; and the step that invokes it is made with
\* the whole stream written and changes no file but the one at the
\* temporary path, which it leaves decrypted.
C15_DecryptorOnce ==
  /\ [](Count("decryptor") <= 1)
  /\ [](Count("decryptor") = 1 =>
          /\ cur.decryptor
          /\ cur.written = NumChunks
          /\ \A i \in CallsAt({"decryptor"}) :
               /\ \A j \in CallsAt({"get_media", "stream", "iter_content"}) : j < i
               /\ \A j \in CallsAt({"cover", "embed"}) : i < j)
  /\ []((pc \in {"dt_meta", "dt_embed", "dt_rename"}
           \/ (AtReturn /\ outcome \in {"finalized", "skip_invalid"})) =>
          /\ Count("decryptor") = (IF cur.decryptor THEN 1 ELSE 0)
          /\ cur.decryptor => Answers("decryptor")[1] = Ok)
  /\ []((pc \in TrackSteps \ {"dt_meta", "dt_embed", "dt_rename"}
           \/ (AtReturn /\ outcome \in {"skip_exists", "skip_unavailable"})) =>
          Count("decryptor") = 0)
  /\ [][(Len(io') = Len(io) + 1 /\ io'[Len(io')].call = "decryptor") =>
          /\ pc = "dt_decrypt"
          /\ cur.decryptor
          /\ cur.written = NumChunks
          /\ disk[cur.temporary_path].encrypted
          /\ Touched(disk, disk') \subseteq {cur.temporary_path}
          /\ io'[Len(io')].resp = Ok =>
               disk' = [disk EXCEPT ![cur.temporary_path].encrypted = FALSE]
       ]_vars

\* C15, witness: a track that came with a decryptor was finalized with its
\* metadata embedded, after one invocation of the decryptor.
C15_Witness ==
  /\ AtReturn
  /\ outcome = "finalized"
  /\ cur.decryptor
  /\ ~config.skipMeta
  /\ Count("decryptor") = 1
  /\ Count("embed") = 1
  /\ ~disk[cur.final_path].encrypted

\* A step that calls the collaborator of that name.
Calls(name) == io' # io /\ io' # <<>> /\ io'[Len(io')].call = name

\* C16: in a download of an album or a discography, every download_track
\* call has the album's whole listing as its siblings and include_album
\* true, and include_artist true exactly in a discography, and makes no
\* get_album_tracks call of its own; get_album_tracks is called by
\* download_album only, in the one step that starts an album, which is
\* reached once for the album asked for or once for each album of the
\* artist's listing in turn; and get_artist_albums is called in the one step
\* that starts the discography.
C16_ListingFetchedOnce ==
  /\ []((job.mode # "track" /\ (pc \in TrackSteps \/ AtReturn)) =>
          /\ cur.supplied
          /\ cur.siblings = AlbumTracks(album)
          /\ cur.include_album
          /\ cur.include_artist = (job.mode = "discography")
          /\ Count("get_album_tracks") = 0)
  /\ []((job.mode = "discography" /\ pc \in TrackSteps \cup {"al_list", "al_next"}) =>
          incArtist)
  /\ []((job.mode = "album" /\ pc \in TrackSteps \cup {"al_list", "al_next"}) =>
          ~incArtist /\ album = job.target)
  /\ [][(job.mode # "track" /\ Calls("get_album_tracks")) =>
          /\ pc = "al_list"
          /\ io' = <<[call |-> "get_album_tracks", resp |-> io'[1].resp]>>
          /\ io'[1].resp = Ok => pc' = "al_next" /\ tracks' = AlbumTracks(album)
       ]_vars
  /\ [][pc' = "al_list" =>
          \/ pc = "start" /\ job.mode = "album"
          \/ /\ pc = "dg_next"
             /\ job.mode = "discography"
             /\ albumIdx' = albumIdx + 1
             /\ album' = ArtistAlbums[albumIdx + 1]
       ]_vars
  /\ [][pc = "al_list" => pc' \in {"al_next", "fatal", "interrupted"}]_vars
  /\ [][Calls("get_artist_albums") => pc = "dg_list" /\ job.mode = "discography"]_vars
  /\ [][pc' = "dg_list" => pc = "start" /\ job.mode = "discography"]_vars
  /\ [][pc = "dg_list" => pc' \in {"dg_next", "fatal", "interrupted"}]_vars

\* C16, witness: the second track of an album downloaded under
\* full-structure has resolved its path from the two siblings it was given,
\* with no call of its own.
C16_Witness ==
  /\ job.mode = "album"
  /\ config.full
  /\ trackIdx = 2
  /\ pc = "dt_check"
  /\ Len(cur.siblings) = 2
  /\ io = <<>>

\* The discs of the listing are numbered 1, 2, ... without a gap.
DiscsFromOne == ListedDiscs = 1..Cardinality(ListedDiscs)

\* C17: the path get_track_path returns has, after the output directory and
\* the artist component (present exactly under include_artist or
\* full-structure): when album inclusion is active, the album component, a
\* disc component exactly when the album has more than one disc (discs are
\* numbered from 1: some listed track is on a disc numbered above 1, and for
\* a listing of discs 1..k that is k > 1), and the file component; when
\* album inclusion is not active, the file component only, which is the
\* sanitized track name with no number before it, and no listing was
\* fetched.
C17_DiscSegment ==
  PathBuilt =>
    LET depth == Len(PathComponents)
        artist == IF job.include_artist \/ config.full THEN 1 ELSE 0
        disc == IF \E d \in ListedDiscs : d > 1 THEN 1 ELSE 0
    IN /\ PathComponents[1] = OutputDirectory
       /\ artist = 1 => PathComponents[2] = sanitize(config, ArtistName)
       /\ IF AlbumIncluded
          THEN /\ depth = 1 + artist + 1 + disc + 1
               /\ PathComponents[2 + artist] = sanitize(config, Albums[1].name)
               /\ (cur.fragments.disc_path # <<>>) <=> (disc = 1)
               /\ DiscsFromOne =>
                    ((cur.fragments.disc_path # <<>>) <=> Cardinality(ListedDiscs) > 1)
               /\ disc = 1 =>
                    LowerStr(UpToSeparator(PathComponents[depth - 1]))
                      = <<"d", "i", "s", "c">>
               /\ io = IF job.supplied THEN <<>>
                       ELSE <<[call |-> "get_album_tracks", resp |-> Ok]>>
          ELSE /\ depth = 1 + artist + 1
               /\ PathComponents[depth] = sanitize(config, job.name)
               /\ cur.fragments.album_path = <<>>
               /\ cur.fragments.disc_path = <<>>
               /\ io = <<>>

\* C17, witness: a path with a disc component was built for a track of an
\* album of two discs whose listing get_track_path fetched itself.
C17_Witness ==
  /\ PathBuilt
  /\ AlbumIncluded
  /\ ~job.supplied
  /\ ListedDiscs = {1, 2}
  /\ cur.fragments.disc_path # <<>>
  /\ Len(PathComponents) = 4

\* C18: whatever stood at the temporary path when download_track was
\* called, once the call has opened it the file there holds what this call
\* wrote and nothing else: it is empty right after the open, and holds as
\* many chunks as the call has written of its own stream, of the call's
\* track, from then on; a file the call finalized holds the whole of that
\* one stream, decrypted if it came with a decryptor and tagged unless
\* metadata are skipped, and the temporary path is gone.
C18_TruncatedAndRewritten ==
  /\ (pc \in FileSteps /\ outcome = "running") =>
       /\ Exists(disk, cur.temporary_path)
       /\ disk[cur.temporary_path].src = cur.track
       /\ disk[cur.temporary_path].chunks = cur.written
       /\ cur.written <= NumChunks
       /\ (pc = "dt_stream" /\ cur.written = 0) =>
            disk[cur.temporary_path] = NewFile(cur)
       /\ pc # "dt_stream" => cur.written = NumChunks
  /\ (AtReturn /\ outcome = "finalized") =>
       /\ Exists(disk, cur.final_path)
       /\ disk[cur.final_path] =
            [src |-> cur.track, chunks |-> NumChunks, encrypted |-> FALSE,
             tagged |-> ~config.skipMeta]
       /\ ~Exists(disk, cur.temporary_path)

\* C18, witness: a track was finalized by a run that found, at the track's
\* temporary path, the part of the same track's stream that an earlier run
\* had written before it was interrupted or failed.
C18_Witness ==
  /\ AtReturn
  /\ outcome = "finalized"
  /\ restarts >= 1
  /\ Exists(entryDisk, cur.temporary_path)
  /\ entryDisk[cur.temporary_path].src = cur.track
  /\ entryDisk[cur.temporary_path].chunks = 1
  /\ disk[cur.final_path].chunks = NumChunks

\* The earlier download_track calls of this traversal, by their position in
\* log, for tracks that resolve to the final path of the current call.
EarlierSamePath ==
  {i \in 1..(Len(log) - 1) :
     FinalOf([track |-> log[i], include_artist |-> cur.include_artist,
              include_album |-> cur.include_album]) = CurrentFinal}

\* download_track is running, or has just returned, for a track whose final
\* path an earlier track of the traversal resolved to as well.
LaterOfSamePath ==
  /\ cur.track # 0
  /\ Len(log) > 1
  /\ pc \in TrackSteps \/ AtReturn
  /\ EarlierSamePath # {}

\* C19, as stated: when a track of the traversal resolves to the final path
\* of an earlier one, the file is there, produced from the earlier track's
\* stream, and the later call makes no get_media call, returns as a skip of
\* an existing file and leaves the file as it was.
C19_EarlierProducesLaterSkipped ==
  LaterOfSamePath =>
    /\ Exists(disk, CurrentFinal)
    /\ \E i \in EarlierSamePath : disk[CurrentFinal].src = log[i]
    /\ Count("get_media") = 0
    /\ pc \in {"dt_path", "dt_check"} \/ (AtReturn /\ outcome = "skip_exists")
    /\ disk = entryDisk

\* C19, amended: when a track of the traversal resolves to the final path of
\* an earlier one, the call that finds the file there makes no get_media
\* call, no stream fetch and no change to the disk and returns as a skip of
\* an existing file; the call that finds no file there (the earlier track
\* was skipped as not available or as an invalid file) is not skipped as
\* existing, and if it finalizes, after a get_media call of its own, the
\* file holds its own track's stream: the first of the tracks to be
\* finalized produces the file, and no track replaces a file it finds.
C19_FirstFinalizedProduces ==
  /\ [](LaterOfSamePath =>
          IF Exists(entryDisk, CurrentFinal)
          THEN /\ Count("get_media") = 0
               /\ Count("stream") = 0
               /\ pc \in {"dt_path", "dt_check"}
                    \/ (AtReturn /\ outcome = "skip_exists")
               /\ disk = entryDisk
          ELSE /\ outcome # "skip_exists"
               /\ pc \notin {"dt_path", "dt_check"} => cur.checked = "absent"
               /\ (AtReturn /\ outcome = "finalized") =>
                    /\ Count("get_media") >= 1
                    /\ disk[CurrentFinal].src = cur.track
                    /\ disk[CurrentFinal].chunks = NumChunks)
  /\ [][(cur.track # 0 /\ pc = "dt_check" /\ Exists(disk, cur.final_path)) =>
          /\ disk' = disk
          /\ pc' \in {"al_next", "done", "interrupted"}
          /\ pc' # "interrupted" => outcome' = "skip_exists" /\ io' = io
       ]_vars

\* C19, witness: in one traversal the later of two tracks with the same
\* final path was skipped as existing, the file being the earlier track's,
\* produced in this run.
C19_Witness ==
  /\ LaterOfSamePath
  /\ AtReturn
  /\ outcome = "skip_exists"
  /\ restarts = 0
  /\ disk[CurrentFinal].src # cur.track
  /\ \E i \in EarlierSamePath : disk[CurrentFinal].src = log[i]

====
